---------------------------- MODULE Spec2Model ----------------------------
(***************************************************************************)
(* Model of download_stenos.py: the per-session pipeline of SessionParser  *)
(* (topic locator, sub-page resolver, transcript segmenter, speaker        *)
(* enrichment, file and report generation).                                *)
(*                                                                         *)
(* Text is modelled as a sequence of one-character strings, so that the    *)
(* string conversions of the program (filter_text, strip, replace) are     *)
(* computed and not assumed.                                               *)
(***************************************************************************)
EXTENDS Integers, Sequences, FiniteSets, TLC

(***************************************************************************)
(* Bounds of the model.                                                    *)
(***************************************************************************)
\* paragraphs of one transcript page read by the segmenter
MaxParas == 4

(***************************************************************************)
(* Text utilities.                                                         *)
(***************************************************************************)
\* the non-breaking space '\xa0'
NBSP == "~"

\* what str.strip() and the regular expression \s take for white space
WS == {" ", NBSP, "\n"}

\* an attribute the element does not carry: an id or name, and an href
NoId == <<"<none>">>

NoHref == "<none>"

RECURSIVE LStrip(_)
LStrip(s) ==
    IF s # <<>> /\ s[1] \in WS THEN LStrip(Tail(s)) ELSE s

RECURSIVE RStrip(_)
RStrip(s) ==
    IF s # <<>> /\ s[Len(s)] \in WS THEN RStrip(SubSeq(s, 1, Len(s) - 1)) ELSE s

\* str.strip()
Strip(s) == RStrip(LStrip(s))

\* str.replace(a, b) for single characters
ReplaceChar(s, a, b) == [i \in 1..Len(s) |-> IF s[i] = a THEN b ELSE s[i]]

\* str.replace(pat, rep): non-overlapping occurrences, left to right
RECURSIVE ReplaceSeq(_, _, _)
ReplaceSeq(s, pat, rep) ==
    IF pat = <<>>
    THEN IF s = <<>> THEN rep ELSE rep \o <<s[1]>> \o ReplaceSeq(Tail(s), pat, rep)
    ELSE IF Len(s) < Len(pat) THEN s
    ELSE IF SubSeq(s, 1, Len(pat)) = pat
         THEN rep \o ReplaceSeq(SubSeq(s, Len(pat) + 1, Len(s)), pat, rep)
         ELSE <<s[1]>> \o ReplaceSeq(Tail(s), pat, rep)

\* pat in s
Contains(s, pat) ==
    \E i \in 1..(Len(s) - Len(pat) + 1) : SubSeq(s, i, i + Len(pat) - 1) = pat

\* re.sub('\s+', ' ', s)
RECURSIVE CollapseWS(_)
CollapseWS(s) ==
    IF s = <<>> THEN <<>>
    ELSE IF s[1] \in WS THEN <<" ">> \o CollapseWS(LStrip(s))
    ELSE <<s[1]>> \o CollapseWS(Tail(s))

filter_text(text) ==
    IF Len(text) = 0 THEN <<>>
    ELSE LET t1 == IF text[1] = ":" THEN Strip(Tail(text)) ELSE text
             t2 == ReplaceChar(t1, NBSP, " ")
         IN  Strip(CollapseWS(t2))

(***************************************************************************)
(* Ordered dictionaries: a sequence of entries, each with a key field k,   *)
(* in insertion order (Python's dict).                                     *)
(***************************************************************************)
Keys(d) == {d[i].k : i \in 1..Len(d)}

Pos(d, key) == CHOOSE i \in 1..Len(d) : d[i].k = key

Get(d, key) == d[Pos(d, key)].v

Put(d, key, val) ==
    IF key \in Keys(d)
    THEN [d EXCEPT ![Pos(d, key)] = [k |-> key, v |-> val]]
    ELSE Append(d, [k |-> key, v |-> val])

(***************************************************************************)
(* Records of the program.                                                 *)
(***************************************************************************)
Speaker(stenoname, pagename, name, titles, function, sex, group, birthdate, link) ==
    [stenoname |-> stenoname, pagename |-> pagename, name |-> name,
     titles |-> titles, function |-> function, sex |-> sex, group |-> group,
     birthdate |-> birthdate, link |-> link]

Intervention(stenoname, text, speaker_key) ==
    [stenoname |-> stenoname, text |-> text, speaker_key |-> speaker_key]

InterventionInfo(pageref, stenopage, reftag, steno_name, date) ==
    [pageref |-> pageref, stenopage |-> stenopage, reftag |-> reftag,
     steno_name |-> steno_name, date |-> date]

(***************************************************************************)
(* Transcript Segmenter: parse_steno.                                      *)
(*                                                                         *)
(* A paragraph is [a, id, href, atext, body]: a says whether it holds an   *)
(* anchor (its first one, which leads the paragraph), id and href are the  *)
(* anchor's attributes (NoId, NoHref when absent), atext the anchor's text and   *)
(* body the text of the paragraph after the anchor.                        *)
(***************************************************************************)
HrefVoting == "/sqw/hlasy.sqw?g=1"
HrefDetail == "/sqw/detail.sqw?id=5"
HrefDetailNoId == "/sqw/detail.sqw?o=8"
HrefVlada == "https://www.vlada.cz/cz/clenove-vlady/x"
HrefOther == "/sqw/other.sqw"

\* 'hlasy.sqw' in href
IsVotingHref(h) == h = HrefVoting

Para(a, id, href, atext, body) ==
    [a |-> a, id |-> id, href |-> href, atext |-> atext, body |-> body]

\* p.text before the anchor is extracted
PText(p) == IF p.a THEN p.atext \o p.body ELSE p.body

\* the locals of parse_steno together with the speaker table it fills
StenoInit(spk) ==
    [r_id |-> <<>>, text |-> <<>>, speaker |-> <<>>, speaker_key |-> <<>>,
     interventions |-> <<>>, speakers |-> spk, crashed |-> FALSE]

\* speaker_link['href'], or "" (lines 400-403)
SpeakerPage(p) == IF p.href # NoHref THEN p.href ELSE ""

\* lines 393-399: the key of a speaker label
SpeakerKey(label) ==
    LET t1 == IF label[Len(label)] = ":" THEN SubSeq(label, 1, Len(label) - 1) ELSE label
        t2 == ReplaceChar(Strip(t1), " ", "_")
    IN  ReplaceSeq(ReplaceChar(t2, ",", "_"), <<"_", "_">>, <<"_">>)

\* lines 393-394: the label without its trailing colon
SpeakerLabel(label) ==
    IF label[Len(label)] = ":" THEN SubSeq(label, 1, Len(label) - 1) ELSE label

\* a variant that registers the stub whether or not the key is known
RegisterSpeakerAlways(spk, key, label, page) ==
    Put(spk, key, Speaker(label, <<>>, <<>>, <<>>, <<>>, <<>>, <<>>, <<>>, page))

\* lines 405-407
RegisterSpeaker(spk, key, label, page) ==
    IF key \notin Keys(spk)
    THEN Put(spk, key, Speaker(label, <<>>, <<>>, <<>>, <<>>, <<>>, <<>>, <<>>, page))
    ELSE spk

\* lines 381-382 and 412-413
Flush(st) ==
    IF st.r_id # <<>>
    THEN Put(st.interventions, st.r_id,
             Intervention(st.speaker, Strip(st.text), st.speaker_key))
    ELSE st.interventions

\* a variant that puts the paragraph before the text gathered so far
AppendTextBefore(st, t) == [st EXCEPT !.text = filter_text(Strip(t)) \o <<"\n">> \o st.text]

\* line 411
AppendText(st, t) == [st EXCEPT !.text = st.text \o filter_text(Strip(t)) \o <<"\n">>]

\* a variant that takes a voting-record anchor for a speaker label
IsSkippedVotingNever(p) == FALSE

\* lines 374-377
IsSkippedVoting(p) == p.href # NoHref /\ IsVotingHref(p.href)

\* one iteration of the loop of lines 364-411
StenoStep(st, p) ==
    IF st.crashed THEN st
    ELSE IF PText(p) = <<NBSP>> \/ PText(p) = <<>> THEN st
    ELSE IF p.a /\ p.id # NoId
    THEN IF IsSkippedVoting(p) THEN st
         ELSE IF p.atext = <<>> THEN st
         ELSE LET label0 == filter_text(p.atext)
              IN  IF label0 = <<>>
                  THEN [st EXCEPT !.crashed = TRUE,
                                  !.interventions = Flush(st),
                                  !.text = <<>>,
                                  !.r_id = p.id]
                  ELSE LET label == SpeakerLabel(label0)
                           key == SpeakerKey(label0)
                           page == SpeakerPage(p)
                           st1 == [st EXCEPT
                                     !.interventions = Flush(st),
                                     !.text = <<>>,
                                     !.r_id = p.id,
                                     !.speaker = key,
                                     !.speaker_key = key,
                                     !.speakers = RegisterSpeaker(st.speakers, key, label, page)]
                       IN  AppendText(st1, p.body)
    ELSE AppendText(st, PText(p))

\* lines 412-414: the interventions of the page
StenoResult(st) == Flush(st)

RECURSIVE StenoRun(_, _)
StenoRun(st, paras) ==
    IF paras = <<>> THEN st ELSE StenoRun(StenoStep(st, paras[1]), Tail(paras))

\* parse_steno on a whole page
parse_steno(paras, spk) ==
    LET st == StenoRun(StenoInit(spk), paras)
    IN  [interventions |-> StenoResult(st), speakers |-> st.speakers, crashed |-> st.crashed]


(***************************************************************************)
(* Speaker Identity Resolver: get_speakers_name and parse_speakers.        *)
(* Czech letters are written without their diacritics.                     *)
(***************************************************************************)
\* lines 492-494 (the list has no comma between "Th" and "prof.")
title_strings ==
    << <<"d", "o", "c", ".">>,
       <<"P", "r", "o", "f", ".">>,
       <<"R", "S", "D", "R", ".">>,
       <<"R", "S", "D", "r", ".">>,
       <<"R", "N", "D", "r", ".">>,
       <<"I", "n", "g", ".">>,
       <<"J", "U", "D", "r", ".">>,
       <<"P", "h", "D", "r", ".">>,
       <<"M", "g", "r", ".">>,
       <<"M", "B", "A">>,
       <<"T", "h", "M", "g", "r", ".">>,
       <<"C", "S", "c", ".">>,
       <<"P", "a", "e", "d", "D", "r", ".">>,
       <<"P", "h", ".", "D", ".">>,
       <<"M", "U", "D", "r", ".">>,
       <<"B", "c", ".">>,
       <<"a", "r", "c", "h", ".">>,
       <<"D", "o", "c", ".">>,
       <<"M", "V", "D", "r", ".">>,
       <<"T", "h", "p", "r", "o", "f", ".">>,
       <<"M", "V", "D", "R", ".">>,
       <<"M", "g", "A", ".">>,
       <<"P", "h", "D", ".", "J", "U">>,
       <<"T", "h", "D", "r", ".">>,
       <<"P", "h", "D", ".">>,
       <<"D", "r", "S", "c", ".">>,
       <<"D", "r", ".">> >>

\* line 509
male_strings ==
    << <<"P", "o", "s", "l", "a", "n", "e", "c">>,
       <<"M", "i", "n", "i", "s", "t", "r">>,
       <<"M", "i", "s", "t", "o", "p", "r", "e", "d", "s", "e", "d", "a">>,
       <<"P", "r", "e", "d", "s", "e", "d", "a">>,
       <<"S", "e", "n", "a", "t", "o", "r">>,
       <<"p", "o", "s", "l", "a", "n", "e", "c">>,
       <<"m", "i", "n", "i", "s", "t", "r">>,
       <<"m", "i", "s", "t", "o", "p", "r", "e", "d", "s", "e", "d", "a">>,
       <<"p", "r", "e", "d", "s", "e", "d", "a">>,
       <<"s", "e", "n", "a", "t", "o", "r">> >>

\* line 510
female_strings ==
    << <<"P", "o", "s", "l", "a", "n", "k", "y", "n", "e">>,
       <<"M", "i", "n", "i", "s", "t", "r", "y", "n", "e">>,
       <<"C", "l", "e", "n", "k", "a">>,
       <<"S", "e", "n", "a", "t", "o", "r", "k", "a">>,
       <<"M", "i", "s", "t", "o", "p", "r", "e", "d", "s", "e", "d", "k", "y", "n", "e">>,
       <<"p", "o", "s", "l", "a", "n", "k", "y", "n", "e">>,
       <<"m", "i", "n", "i", "s", "t", "r", "y", "n", "e">>,
       <<"c", "l", "e", "n", "k", "a">>,
       <<"s", "e", "n", "a", "t", "o", "r", "k", "a">>,
       <<"m", "i", "s", "t", "o", "p", "r", "e", "d", "s", "e", "d", "k", "y", "n", "e">> >>

\* lines 499-502: the loop over title_strings from index i on
RECURSIVE StripTitles(_, _, _)
StripTitles(page_name, titles, i) ==
    IF i > Len(title_strings) THEN [name |-> page_name, titles |-> titles]
    ELSE IF Contains(page_name, title_strings[i])
         THEN StripTitles(Strip(ReplaceSeq(page_name, title_strings[i], <<>>)),
                          titles \o title_strings[i] \o <<" ">>, i + 1)
         ELSE StripTitles(page_name, titles, i + 1)

\* lines 511-520
SexOf(function) ==
    IF \E i \in 1..Len(female_strings) : Contains(function, female_strings[i])
    THEN <<"W", "o", "m", "a", "n">>
    ELSE IF \E i \in 1..Len(male_strings) : Contains(function, male_strings[i])
         THEN <<"M", "a", "n">>
         ELSE <<>>

get_speakers_name(page_name, steno_name) ==
    LET r == StripTitles(Strip(ReplaceSeq(page_name, <<",">>, <<>>)), <<>>, 1)
        function == Strip(ReplaceSeq(steno_name, r.name, <<>>))
    IN  [name |-> r.name, titles |-> Strip(r.titles), function |-> function,
         sex |-> SexOf(function)]


(***************************************************************************)
(* Numbers in text.                                                        *)
(***************************************************************************)
DigitChars == <<"0", "1", "2", "3", "4", "5", "6", "7", "8", "9">>

LowerCase ==
    {"a", "b", "c", "d", "e", "f", "g", "h", "i", "j", "k", "l", "m",
     "n", "o", "p", "q", "r", "s", "t", "u", "v", "w", "x", "y", "z"}

IsDigit(c) == \E d \in 1..10 : DigitChars[d] = c

DigitVal(c) == (CHOOSE d \in 1..10 : DigitChars[d] = c) - 1

\* [\d]*
IsDigits(s) == \A i \in 1..Len(s) : IsDigit(s[i])

\* int(s), for s a non-empty run of digits
RECURSIVE ToInt(_)
ToInt(s) ==
    IF s = <<>> THEN 0 ELSE 10 * ToInt(SubSeq(s, 1, Len(s) - 1)) + DigitVal(s[Len(s)])

\* str(n)
RECURSIVE Digits(_)
Digits(n) ==
    IF n < 10 THEN <<DigitChars[n + 1]>> ELSE Digits(n \div 10) \o <<DigitChars[(n % 10) + 1]>>

\* the format '{:0>w}'
RECURSIVE PadLeft(_, _)
PadLeft(s, w) == IF Len(s) >= w THEN s ELSE PadLeft(<<"0">> \o s, w)

(***************************************************************************)
(* Links.  An href is [dir, file, ext, frag], the text                     *)
(* dir file "." ext "#" frag (no "#" when frag is empty); requested links  *)
(* have the same shape.                                                    *)
(***************************************************************************)
Href(dir, file, ext, frag) == [dir |-> dir, file |-> file, ext |-> ext, frag |-> frag]

\* the element has no href
NoLink == Href("", <<>>, "", <<>>)

\* a link with "/sqw/historie.sqw" in it
HrefHistorie == Href("/sqw/", <<"h", "i", "s", "t", "o", "r", "i", "e">>, "sqw", <<>>)

\* the directory part of the links of years before 2010
SchuzDir == "001schuz/"

\* the result of a pattern that did not match
None == <<"<None>">>

\* lines 738-744: '^.*html#(q[\d]+)$'
get_qid_for_topic(link) ==
    IF /\ link.ext = "html"
       /\ Len(link.frag) >= 2
       /\ link.frag[1] = "q"
       /\ IsDigits(Tail(link.frag))
    THEN link.frag
    ELSE None

\* lines 753-762: '^.*html(#[a-z][\d]+)$' in 2013, '^.*html#([\d]+)$' otherwise
get_hash_for_topic(year, link) ==
    IF year = 2013
    THEN IF /\ link.ext = "html"
            /\ Len(link.frag) >= 2
            /\ link.frag[1] \in LowerCase
            /\ IsDigits(Tail(link.frag))
         THEN <<"#">> \o link.frag
         ELSE None
    ELSE IF /\ link.ext = "html"
            /\ Len(link.frag) >= 1
            /\ IsDigits(link.frag)
         THEN link.frag
         ELSE None

\* lines 663-677: the page name of a sublink, None when the pattern fails
PageIdx(year, sublink) ==
    IF year >= 2010
    THEN IF sublink.ext = "html" THEN Href(sublink.dir, sublink.file, "html", <<>>) ELSE NoLink
    ELSE IF sublink.dir = SchuzDir /\ sublink.ext = "html"
         THEN Href("", sublink.file, "html", <<>>)
         ELSE NoLink

\* lines 680-683: the link requested for a sublink
SubpageLink(year, sublink) ==
    IF year >= 2010 THEN sublink ELSE Href("", sublink.file, "html", <<>>)

\* line 708: '(s[\d]*.htm)#(r[\d]*)$'
IsInterventionLink(h) ==
    /\ h.ext = "htm"
    /\ Len(h.file) >= 1 /\ h.file[1] = "s" /\ IsDigits(Tail(h.file))
    /\ Len(h.frag) >= 1 /\ h.frag[1] = "r" /\ IsDigits(Tail(h.frag))

\* group(1) of the pattern of line 708
StenoPageOf(h) == h.file \o <<".", "h", "t", "m">>

\* group(0) of the pattern of line 708
PageRefOf(h) == StenoPageOf(h) \o <<"#">> \o h.frag

\* line 317: the link of a transcript page
StenoLink(stenopage) == Href("", SubSeq(stenopage, 1, Len(stenopage) - 4), "htm", <<>>)

\* line 102: the link of the session page
SessionLink == Href("", <<"i", "n", "d", "e", "x">>, "htm", <<>>)

\* lines 434 and 444: the link of a biography page
BioLink(h) == Href(h, <<>>, "", <<>>)

(***************************************************************************)
(* The fetch cache: request (lines 119-147).  net is [cache, log]: the     *)
(* links whose text is on disk, and every call of request in order, with   *)
(* whether it went to the network (net) and whether it returned text (ok). *)
(***************************************************************************)
Request(nt, link, net_ok) ==
    IF link \in nt.cache
    THEN [ok |-> TRUE, counted |-> 0,
          net |-> [nt EXCEPT !.log = Append(@, [link |-> link, net |-> FALSE, ok |-> TRUE])]]
    ELSE [ok |-> net_ok, counted |-> 1,
          net |-> [cache |-> IF net_ok THEN nt.cache \cup {link} ELSE nt.cache,
                   log |-> Append(nt.log, [link |-> link, net |-> TRUE, ok |-> net_ok])]]

(***************************************************************************)
(* Sub-page Resolver: get_steno_date, parse_interventions_page,            *)
(* parse_sublink_order.                                                    *)
(*                                                                         *)
(* A title is [empty, pattern, day, month, year]: pattern says whether     *)
(* the text matches 'Stenograficky zapis <n>. schuze, <day>. <month>       *)
(* <year>', and day, month, year are the groups.                           *)
(***************************************************************************)
\* lines 53-55
CzechMonths ==
    [m \in {"ledna", "unora", "brezna", "dubna", "kvetna", "cervna", "cervence",
            "srpna", "zari", "rijna", "listopadu", "prosince"} |->
        CASE m = "ledna" -> 1 [] m = "unora" -> 2 [] m = "brezna" -> 3
          [] m = "dubna" -> 4 [] m = "kvetna" -> 5 [] m = "cervna" -> 6
          [] m = "cervence" -> 7 [] m = "srpna" -> 8 [] m = "zari" -> 9
          [] m = "rijna" -> 10 [] m = "listopadu" -> 11 [] m = "prosince" -> 12]

Title(empty, pattern, day, month, year) ==
    [empty |-> empty, pattern |-> pattern, day |-> day, month |-> month, year |-> year]

\* rc is "ok" for (True, date), "false" for (False, ""), "keyerror" when
\* the month is not in CzechMonths
get_steno_date(title) ==
    IF title.empty THEN [rc |-> "false", date |-> <<>>]
    ELSE IF ~title.pattern THEN [rc |-> "false", date |-> <<>>]
    ELSE IF title.month \notin DOMAIN CzechMonths THEN [rc |-> "keyerror", date |-> <<>>]
    ELSE [rc |-> "ok",
          date |-> title.year \o PadLeft(Digits(CzechMonths[title.month]), 2)
                              \o PadLeft(Digits(ToInt(title.day)), 2)]

\* an anchor of a sub-page: [name, href, text]
PageAnchor(name, href, text) == [name |-> name, href |-> href, text |-> text]

\* a variant that appends a reference whether or not the list holds it
AddInfoAlways(info, q_id, new) == Put(info, q_id, Append(Get(info, q_id), new))

\* lines 727-728
AddInfo(info, q_id, new) ==
    IF \E i \in 1..Len(Get(info, q_id)) : Get(info, q_id)[i] = new
    THEN info
    ELSE Put(info, q_id, Append(Get(info, q_id), new))

\* lines 711-728: the loop from anchor i on, q_id the open group
RECURSIVE InterventionsLoop(_, _, _, _, _)
InterventionsLoop(anchors, i, q_id, date, info) ==
    IF i > Len(anchors) THEN info
    ELSE LET a == anchors[i]
         IN  IF a.name # NoId
             THEN InterventionsLoop(anchors, i + 1, a.name, date,
                                    IF a.name \in Keys(info) THEN info ELSE Put(info, a.name, <<>>))
             ELSE IF a.href # NoLink /\ q_id # <<>> /\ IsInterventionLink(a.href)
                  THEN InterventionsLoop(anchors, i + 1, q_id, date,
                           AddInfo(info, q_id,
                                   InterventionInfo(PageRefOf(a.href), StenoPageOf(a.href),
                                                    a.href.frag, filter_text(a.text), date)))
                  ELSE InterventionsLoop(anchors, i + 1, q_id, date, info)

parse_interventions_page(anchors, date, info) == InterventionsLoop(anchors, 1, <<>>, date, info)


(***************************************************************************)
(* State.                                                                  *)
(***************************************************************************)
VARIABLES
    world,          \* the web site: [style, title] (see SubPage)
    me,             \* the SessionParser object of the session being processed
    speakers,       \* the process-wide speaker table (main's speakers, self.speakers)
    net,            \* the fetch cache on disk and the calls of request
    pc,             \* where main is: "start", "locate", "stenos", "speakers",
                    \* "generate", "done", "crashed" (uncaught exception),
                    \* "exited" (sys.exit)
    scan,           \* the topic locator's loop: [seen, topic_id, par_ok]
    pos,            \* loop position of get_all_stenos, parse_speakers and
                    \* generate_files_and_report: [t, i]
    visited_links,  \* generate_files_and_report's local of that name
    written,        \* the files written, in order: [file_name, text]
    rows,           \* the data rows of file_summary.tsv
    session,        \* how many sessions main has started
    doc,            \* the paragraphs the segmenter has read (segmenter alone)
    st              \* the segmenter's locals (segmenter alone)

vars ==
    <<world, me, speakers, net, pc, scan, pos, visited_links, written, rows,
      session, doc, st>>

(***************************************************************************)
(* The web site.  Sub-pages 1-1.html and 1-2.html list interventions in    *)
(* groups; transcripts s1.htm and s2.htm hold the speeches.  world.style   *)
(* is the form of the group names on the sub-pages ("q": q1, "digits": 1,  *)
(* "hashq": #q1) and world.title the title of sub-page 1-1.html.           *)
(***************************************************************************)
File11 == <<"1", "-", "1">>

File12 == <<"1", "-", "2">>

FileS1 == <<"s", "1">>

FileS2 == <<"s", "2">>

GroupName(style, n) ==
    CASE style = "q" -> <<"q", n>>
      [] style = "digits" -> <<n>>
      [] style = "hashq" -> <<"#", "q", n>>

TitleOk(day) == Title(FALSE, TRUE, day, "unora", <<"2", "0", "1", "5">>)

TitleNoMatch == Title(FALSE, FALSE, <<>>, "", <<>>)

TitleBadMonth == Title(FALSE, TRUE, <<"3">>, "februar", <<"2", "0", "1", "5">>)

TitleEmpty == Title(TRUE, FALSE, <<>>, "", <<>>)

Titles == {TitleOk(<<"3">>), TitleNoMatch, TitleBadMonth, TitleEmpty}

LabelA == <<"P", "o", "s", "l", "a", "n", "e", "c", " ", "A", " ", "B", ":">>

LabelA2 == <<"P", "o", "s", "l", "a", "n", "e", "c", " ", "A", ",", "B">>

LabelC == <<"C">>

IRef(file, tag) == Href("", file, "htm", <<"r", tag>>)

\* the sub-page served for a file name
SubPage(file) ==
    IF file = File11
    THEN [title |-> world.title,
          anchors |-> << PageAnchor(GroupName(world.style, "1"), NoLink, <<>>),
                         PageAnchor(NoId, IRef(FileS1, "1"), LabelA),
                         PageAnchor(NoId, IRef(FileS1, "2"), LabelC),
                         PageAnchor(GroupName(world.style, "2"), NoLink, <<>>),
                         PageAnchor(NoId, IRef(FileS1, "1"), LabelA),
                         PageAnchor(NoId, IRef(FileS1, "1"), LabelA) >>]
    ELSE [title |-> TitleOk(<<"4">>),
          anchors |-> << PageAnchor(GroupName(world.style, "1"), NoLink, <<>>),
                         PageAnchor(NoId, IRef(FileS2, "1"), LabelA2),
                         PageAnchor(NoId, IRef(FileS1, "3"), LabelC) >>]

\* the transcript served for a file name
Transcript(file) ==
    IF file = FileS1
    THEN << Para(TRUE, <<"r", "1">>, HrefDetail, LabelA, <<" ", "x">>),
            Para(TRUE, <<"h", "1">>, HrefVoting, <<"v">>, <<"n">>),
            Para(FALSE, NoId, NoHref, <<>>, <<"y">>),
            Para(TRUE, <<"r", "2">>, NoHref, LabelC, <<"z">>) >>
    ELSE << Para(TRUE, <<"r", "1">>, HrefVlada, LabelA2, <<"w">>) >>

\* whether the site has the page of a link
Served(link) ==
    \/ link.dir = "" /\ link.ext = "html" /\ link.file \in {File11, File12}
    \/ link.dir = "" /\ link.ext = "htm" /\ link.file \in {FileS1, FileS2}
    \/ link = SessionLink
    \/ link \in {BioLink(HrefDetail), BioLink(HrefVlada)}

(***************************************************************************)
(* SessionParser.__init__ (lines 97-116).                                  *)
(***************************************************************************)
NewSession(year, number) ==
    [year |-> year, session_number |-> number,
     pages |-> <<>>, stenos |-> <<>>, topics |-> <<>>, topic_titles |-> <<>>,
     interventions_info |-> <<>>, request_counter |-> 0]

\* request as a method: the counter of line 140 with the call
DoRequest(m, nt, link, net_ok) ==
    LET r == Request(nt, link, net_ok /\ Served(link))
    IN  [ok |-> r.ok, net |-> r.net,
         me |-> [m EXCEPT !.request_counter = @ + r.counted]]

\* a variant that records the page before its date is known
ParseSublinkOrderEager(m, nt, sublink, net_ok) ==
    LET idx == PageIdx(m.year, sublink)
    IN  IF idx = NoLink THEN [rc |-> "false", me |-> m, net |-> nt]
        ELSE IF idx \in Keys(m.pages) THEN [rc |-> "true", me |-> m, net |-> nt]
        ELSE LET link == SubpageLink(m.year, sublink)
                 r == DoRequest(m, nt, link, net_ok)
             IN  IF ~r.ok THEN [rc |-> "false", me |-> r.me, net |-> r.net]
                 ELSE LET d == get_steno_date(SubPage(link.file).title)
                          m1 == [r.me EXCEPT
                                   !.pages = Put(@, idx, [link |-> link, date_string |-> d.date])]
                      IN  IF d.rc # "ok"
                          THEN [rc |-> d.rc, me |-> m1, net |-> r.net]
                          ELSE [rc |-> "true", net |-> r.net,
                                me |-> [m1 EXCEPT
                                  !.interventions_info =
                                     parse_interventions_page(SubPage(link.file).anchors, d.date, @)]]

\* parse_sublink_order (lines 661-702); rc is "true", "false", or "keyerror"
\* when get_steno_date raises
ParseSublinkOrder(m, nt, sublink, net_ok) ==
    LET idx == PageIdx(m.year, sublink)
    IN  IF idx = NoLink THEN [rc |-> "false", me |-> m, net |-> nt]
        ELSE IF idx \in Keys(m.pages) THEN [rc |-> "true", me |-> m, net |-> nt]
        ELSE LET link == SubpageLink(m.year, sublink)
                 r == DoRequest(m, nt, link, net_ok)
             IN  IF ~r.ok THEN [rc |-> "false", me |-> r.me, net |-> r.net]
                 ELSE LET d == get_steno_date(SubPage(link.file).title)
                      IN  IF d.rc # "ok"
                          THEN [rc |-> d.rc, me |-> r.me, net |-> r.net]
                          ELSE [rc |-> "true", net |-> r.net,
                                me |-> [r.me EXCEPT
                                  !.interventions_info =
                                     parse_interventions_page(SubPage(link.file).anchors, d.date, @),
                                  !.pages = Put(@, idx, [link |-> link, date_string |-> d.date])]]

(***************************************************************************)
(* Era-Specific Topic Locator.  An anchor of the session page is           *)
(* [first, id, name, href, title]: first says whether it is the first      *)
(* link of its paragraph, title is the text of its next sibling.           *)
(***************************************************************************)
Anchor(first, id, name, href, title) ==
    [first |-> first, id |-> id, name |-> name, href |-> href, title |-> title]

\* a variant that opens the topic anew each time its anchor is met
OpenTopicAnew(m, topic_id, title) ==
    [m EXCEPT !.topics = Put(@, topic_id, <<>>),
              !.topic_titles = Put(@, topic_id, title)]

\* lines 167-169, 203-205, 245-247
OpenTopic(m, topic_id, title) ==
    IF topic_id \notin Keys(m.topics)
    THEN [m EXCEPT !.topics = Put(@, topic_id, <<>>),
                   !.topic_titles = Put(@, topic_id, title)]
    ELSE m

\* lines 184-185, 225-226, 267-268: resolve, and on success extend the topic;
\* a KeyError (an unknown month, an id the index lacks, a topic that was
\* never opened) leaves the loop at the handler's continue
ResolveAndExtend(m, nt, topic_id, order_id, sublink, net_ok) ==
    LET r == ParseSublinkOrder(m, nt, sublink, net_ok)
    IN  IF /\ r.rc = "true"
           /\ order_id \in Keys(r.me.interventions_info)
           /\ topic_id \in Keys(r.me.topics)
        THEN [me |-> [r.me EXCEPT !.topics =
                        Put(@, topic_id, Get(@, topic_id) \o Get(r.me.interventions_info, order_id))],
              net |-> r.net]
        ELSE [me |-> r.me, net |-> r.net]

\* the result of a step that changes nothing
Skip(m, sc, nt) == [me |-> m, scan |-> sc, net |-> nt, crashed |-> FALSE]

\* the result of a step that raises an exception nothing catches
Crash(m, sc, nt) == [me |-> m, scan |-> sc, net |-> nt, crashed |-> TRUE]

\* int(text[1:]) (line 162) and int(text[1:].replace('b', '')) (lines 202, 244):
\* -1 stands for the ValueError
TopicNumber(text, strip_b) ==
    LET t == IF strip_b THEN ReplaceSeq(Tail(text), <<"b">>, <<>>) ELSE Tail(text)
    IN  IF text # <<>> /\ t # <<>> /\ IsDigits(t) THEN ToInt(t) ELSE -1

\* parse_session_post_2013 (lines 150-187), one link of one paragraph
parse_session_post_2013(m, sc, nt, a, net_ok) ==
    IF a.first
    THEN IF a.id = NoId THEN Skip(m, [sc EXCEPT !.par_ok = FALSE], nt)
         ELSE LET topic_id == TopicNumber(a.id, FALSE)
              IN  IF topic_id = -1 THEN Crash(m, sc, nt)
                  ELSE Skip(OpenTopic(m, topic_id, a.title),
                            [sc EXCEPT !.par_ok = TRUE, !.topic_id = topic_id], nt)
    ELSE IF ~sc.par_ok THEN Skip(m, sc, nt)
    ELSE IF a.href = NoLink THEN Skip(m, sc, nt)
    ELSE IF a.href = HrefHistorie THEN Skip(m, sc, nt)
    ELSE LET q_id == get_qid_for_topic(a.href)
         IN  IF q_id = None THEN Skip(m, sc, nt)
             ELSE LET r == ResolveAndExtend(m, nt, sc.topic_id, q_id, a.href, net_ok)
                  IN  Skip(r.me, sc, r.net)

\* the loop body shared by parse_session_2013 and parse_session_pre_2013;
\* matches is the result of the era's reg_ex_topic on the href
NamedEraStep(m, sc, nt, a, net_ok, matches) ==
    LET topic_id == IF a.name # NoId THEN TopicNumber(a.name, TRUE) ELSE sc.topic_id
        sc1 == [sc EXCEPT !.topic_id = topic_id]
    IN  IF topic_id = -1 THEN Crash(m, sc, nt)
        ELSE IF a.name # NoId /\ topic_id \notin Keys(m.topics)
        THEN Skip(OpenTopic(m, topic_id, filter_text(a.title)), sc1, nt)
        ELSE IF a.href = NoLink THEN Skip(m, sc1, nt)
        ELSE IF ~matches THEN Skip(m, sc1, nt)
        ELSE LET hash_id == get_hash_for_topic(m.year, a.href)
             IN  IF hash_id = None THEN Skip(m, sc1, nt)
                 ELSE LET r == ResolveAndExtend(m, nt, topic_id, hash_id, a.href, net_ok)
                      IN  Skip(r.me, sc1, r.net)

\* parse_session_2013 (lines 189-228), one link; line 195: '^.*html#(q[\d]+)$'
parse_session_2013(m, sc, nt, a, net_ok) ==
    NamedEraStep(m, sc, nt, a, net_ok,
                 a.href # NoLink /\ get_qid_for_topic(a.href) # None)

\* parse_session_pre_2013 (lines 231-270), one link; line 237: '^.*html#([\d]+)$'
parse_session_pre_2013(m, sc, nt, a, net_ok) ==
    NamedEraStep(m, sc, nt, a, net_ok,
                 /\ a.href # NoLink
                 /\ a.href.ext = "html"
                 /\ Len(a.href.frag) >= 1
                 /\ IsDigits(a.href.frag))

\* lines 296-301
LocatorStep(m, sc, nt, a, net_ok) ==
    IF m.year = 2013 THEN parse_session_2013(m, sc, nt, a, net_ok)
    ELSE IF m.year > 2013 THEN parse_session_post_2013(m, sc, nt, a, net_ok)
    ELSE parse_session_pre_2013(m, sc, nt, a, net_ok)


(***************************************************************************)
(* The session page: the anchors the locator may meet, by era.             *)
(***************************************************************************)
\* anchors of the session page the locator reads
MaxAnchors == 3

Years == {2006, 2010, 2013, 2017}

\* the group names the sub-pages of a year may carry
Styles(year) ==
    IF year > 2013 THEN {"q"}
    ELSE IF year = 2013 THEN {"q", "hashq"}
    ELSE {"digits"}

T1 == <<"T", " ", " ", "1">>

T2 == <<"U">>

B1 == <<"b", "1">>

B2 == <<"b", "2">>

BTop == <<"t", "o", "p">>

\* the fragment of a reference to group n in a year's session page
Frag(year, n) == IF year >= 2013 THEN <<"q", n>> ELSE <<n>>

\* a fragment the year's pattern does not take
OddFrag(year) == IF year >= 2013 THEN <<"1">> ELSE <<"q", "1">>

LinkDir(year) == IF year >= 2010 THEN "" ELSE SchuzDir

Heads(year) ==
    IF year > 2013
    THEN { Anchor(TRUE, B1, NoId, NoLink, T1), Anchor(TRUE, B1, NoId, NoLink, T2),
           Anchor(TRUE, B2, NoId, NoLink, T2), Anchor(TRUE, BTop, NoId, NoLink, T1),
           Anchor(TRUE, NoId, NoId, NoLink, T1) }
    ELSE { Anchor(TRUE, NoId, B1, NoLink, T1), Anchor(TRUE, NoId, B1, NoLink, T2),
           Anchor(TRUE, NoId, B2, NoLink, T2), Anchor(TRUE, NoId, BTop, NoLink, T1) }

Links(year) ==
    { Anchor(FALSE, NoId, NoId, Href(LinkDir(year), File11, "html", Frag(year, "1")), <<>>),
      Anchor(FALSE, NoId, NoId, Href(LinkDir(year), File11, "html", Frag(year, "2")), <<>>),
      Anchor(FALSE, NoId, NoId, Href(LinkDir(year), File12, "html", Frag(year, "1")), <<>>),
      Anchor(FALSE, NoId, NoId, NoLink, <<>>) }
    \cup (IF year > 2013
          THEN { Anchor(FALSE, NoId, NoId, HrefHistorie, <<>>) }
          ELSE { Anchor(FALSE, NoId, NoId, Href(LinkDir(year), File11, "html", OddFrag(year)), <<>>) })

AnchorSet(year) == Heads(year) \cup Links(year)

(***************************************************************************)
(* Actions of one session (main, lines 884-901).                           *)
(***************************************************************************)
ScanInit == [seen |-> <<>>, topic_id |-> 0, par_ok |-> FALSE]

PosInit == [t |-> 1, i |-> 1]

\* the first position at or after (t, i) that names a reference of a topic,
\* and [t |-> Len(topics) + 1, i |-> 1] when there is none
RECURSIVE NormPos(_, _, _)
NormPos(topics, t, i) ==
    IF t > Len(topics) THEN [t |-> Len(topics) + 1, i |-> 1]
    ELSE IF i > Len(topics[t].v) THEN NormPos(topics, t + 1, 1)
    ELSE [t |-> t, i |-> i]

\* parse_session, lines 286-294: the session page is requested
ParseSessionStart ==
    /\ pc = "start"
    /\ \E net_ok \in BOOLEAN :
         LET r == DoRequest(me, net, SessionLink, net_ok)
         IN  /\ me' = r.me
             /\ net' = r.net
             /\ pc' = IF r.ok THEN "locate" ELSE "speakers"
    /\ pos' = PosInit
    /\ UNCHANGED <<world, speakers, scan, visited_links, written, rows, session, doc, st>>

\* parse_session, lines 296-301: the locator reads one more anchor of a
\* session page of at most n
LocateUpTo(n) ==
    /\ pc = "locate"
    /\ Len(scan.seen) < n
    /\ \E a \in AnchorSet(me.year), net_ok \in BOOLEAN :
         /\ me.year > 2013 => (a.first \/ scan.seen # <<>>)
         /\ LET r == LocatorStep(me, scan, net, a, net_ok)
            IN  /\ me' = r.me
                /\ net' = r.net
                /\ scan' = [r.scan EXCEPT !.seen = Append(@, a)]
                /\ pc' = IF r.crashed THEN "crashed" ELSE "locate"
    /\ UNCHANGED <<world, speakers, pos, visited_links, written, rows, session, doc, st>>

Locate == LocateUpTo(MaxAnchors)

\* the session page ends
LocateEnd ==
    /\ pc = "locate"
    /\ pc' = "stenos"
    /\ pos' = NormPos(me.topics, 1, 1)
    /\ UNCHANGED <<world, me, speakers, net, scan, visited_links, written, rows, session, doc, st>>

\* get_all_stenos, lines 315-328: one reference of one topic
GetAllStenos ==
    /\ pc = "stenos"
    /\ pos.t <= Len(me.topics)
    /\ LET int_info == me.topics[pos.t].v[pos.i]
           next == NormPos(me.topics, pos.t, pos.i + 1)
       IN  IF int_info.stenopage \in Keys(me.stenos)
           THEN /\ pos' = next
                /\ UNCHANGED <<me, net, speakers, pc>>
           ELSE \E net_ok \in BOOLEAN :
                  LET r == DoRequest(me, net, StenoLink(int_info.stenopage), net_ok)
                      s == parse_steno(Transcript(StenoLink(int_info.stenopage).file), speakers)
                  IN  /\ net' = r.net
                      /\ IF ~r.ok
                         THEN /\ me' = r.me
                              /\ pos' = next
                              /\ UNCHANGED <<speakers, pc>>
                         ELSE /\ speakers' = s.speakers
                              /\ IF s.crashed
                                 THEN /\ pc' = "crashed"
                                      /\ me' = r.me
                                      /\ UNCHANGED pos
                                 ELSE /\ me' = [r.me EXCEPT !.stenos =
                                                  Put(@, int_info.stenopage, s.interventions)]
                                      /\ pos' = next
                                      /\ UNCHANGED pc
    /\ UNCHANGED <<world, scan, visited_links, written, rows, session, doc, st>>

\* get_all_stenos returns, and with it parse_session
GetAllStenosEnd ==
    /\ pc = "stenos"
    /\ pos.t > Len(me.topics)
    /\ pc' = "speakers"
    /\ pos' = PosInit
    /\ UNCHANGED <<world, me, speakers, net, scan, visited_links, written, rows, session, doc, st>>


(***************************************************************************)
(* parse_speakers (lines 417-486), one speaker of the table.               *)
(*                                                                         *)
(* A biography page is [h1, fig]; fig is the caption block                 *)
(* [kind, matches, day, month, year, party]: kind is "none" (no block),    *)
(* "zvolen" (its text has "Zvolen") or "narozen"; matches says whether     *)
(* the pattern of that kind matches, and the rest are its groups.          *)
(***************************************************************************)
\* "https://www.vlada.cz/cz/" in link
IsVladaLink(l) == l = HrefVlada

\* "/sqw/detail.sqw" in link
IsDetailLink(l) == l \in {HrefDetail, HrefDetailNoId}

\* line 419: "/sqw/detail.sqw\?id=(\d+)$" is found in the link
HasDetailId(l) == l = HrefDetail

NoFig == [kind |-> "none", matches |-> FALSE, day |-> <<>>, month |-> <<>>,
          year |-> <<>>, party |-> <<>>]

\* the biography page served for a link
BioPage(l) ==
    IF l = HrefDetail
    THEN [h1 |-> <<"I", "n", "g", ".", " ", NBSP, "A", " ", "B">>,
          fig |-> [kind |-> "zvolen", matches |-> TRUE, day |-> <<"1">>, month |-> <<"2">>,
                   year |-> <<"1", "9", "7", "0">>, party |-> <<"X">>]]
    ELSE [h1 |-> <<"A", " ", "B">>, fig |-> NoFig]

\* lines 457-475
FigGroup(fig) == IF fig.kind = "zvolen" /\ fig.matches THEN fig.party ELSE <<>>

FigBirthDate(fig) ==
    IF fig.kind # "none" /\ fig.matches
    THEN PadLeft(fig.year, 4) \o PadLeft(fig.month, 2) \o PadLeft(fig.day, 2)
    ELSE <<>>

\* lines 432 and 440-442: the speaker's link is one parse_speakers requests
NeedsFetch(sp) == IsVladaLink(sp.link) \/ (IsDetailLink(sp.link) /\ HasDetailId(sp.link))

\* lines 438-439, 453-486: the record of a speaker, page the text fetched
EnrichFrom(sp, page) ==
    LET page_name == filter_text(page.h1)
        fig == IF IsVladaLink(sp.link) THEN NoFig ELSE page.fig
        n == get_speakers_name(page_name, sp.stenoname)
    IN  Speaker(sp.stenoname, page_name, n.name, n.titles, n.function, n.sex,
                FigGroup(fig), FigBirthDate(fig), sp.link)

\* a variant that keeps the normalized name as the label of the record
EnrichBareRenaming(sp) ==
    LET n == get_speakers_name(<<>>, sp.stenoname)
    IN  Speaker(n.name, <<>>, n.name, n.titles, n.function, n.sex, <<>>, <<>>, sp.link)

\* lines 477-486 for a speaker whose link is not requested
EnrichBare(sp) ==
    LET n == get_speakers_name(<<>>, sp.stenoname)
    IN  Speaker(sp.stenoname, <<>>, n.name, n.titles, n.function, n.sex, <<>>, <<>>, sp.link)

\* lines 422-486: the loop body of parse_speakers for one record when every
\* request it makes returns the page
EnrichOne(sp) ==
    IF Len(sp.name) > 0 THEN sp
    ELSE IF NeedsFetch(sp) THEN EnrichFrom(sp, BioPage(sp.link))
    ELSE EnrichBare(sp)

\* a variant that goes on to the next speaker when the request fails
ParseSpeakersSkipping ==
    /\ pc = "speakers"
    /\ pos.i <= Len(speakers)
    /\ LET sp == speakers[pos.i].v
       IN  IF Len(sp.name) > 0
           THEN /\ pos' = [pos EXCEPT !.i = @ + 1]
                /\ UNCHANGED <<me, net, speakers, pc>>
           ELSE IF NeedsFetch(sp)
           THEN \E net_ok \in BOOLEAN :
                  LET r == DoRequest(me, net, BioLink(sp.link), net_ok)
                  IN  /\ me' = r.me
                      /\ net' = r.net
                      /\ speakers' = IF r.ok
                                     THEN [speakers EXCEPT ![pos.i].v =
                                             EnrichFrom(sp, BioPage(sp.link))]
                                     ELSE speakers
                      /\ pos' = [pos EXCEPT !.i = @ + 1]
                      /\ UNCHANGED pc
           ELSE /\ speakers' = [speakers EXCEPT ![pos.i].v = EnrichBare(sp)]
                /\ pos' = [pos EXCEPT !.i = @ + 1]
                /\ UNCHANGED <<me, net, pc>>
    /\ UNCHANGED <<world, scan, visited_links, written, rows, session, doc, st>>

ParseSpeakers ==
    /\ pc = "speakers"
    /\ pos.i <= Len(speakers)
    /\ LET sp == speakers[pos.i].v
       IN  IF Len(sp.name) > 0
           THEN /\ pos' = [pos EXCEPT !.i = @ + 1]
                /\ UNCHANGED <<me, net, speakers, pc>>
           ELSE IF NeedsFetch(sp)
           THEN \E net_ok \in BOOLEAN :
                  LET r == DoRequest(me, net, BioLink(sp.link), net_ok)
                  IN  /\ me' = r.me
                      /\ net' = r.net
                      /\ IF r.ok
                         THEN /\ speakers' = [speakers EXCEPT ![pos.i].v =
                                                EnrichFrom(sp, BioPage(sp.link))]
                              /\ pos' = [pos EXCEPT !.i = @ + 1]
                              /\ UNCHANGED pc
                         ELSE /\ pc' = "exited"
                              /\ UNCHANGED <<speakers, pos>>
           ELSE /\ speakers' = [speakers EXCEPT ![pos.i].v = EnrichBare(sp)]
                /\ pos' = [pos EXCEPT !.i = @ + 1]
                /\ UNCHANGED <<me, net, pc>>
    /\ UNCHANGED <<world, scan, visited_links, written, rows, session, doc, st>>

\* {**a, **b}
RECURSIVE DictMerge(_, _)
DictMerge(a, b) ==
    IF b = <<>> THEN a ELSE DictMerge(Put(a, b[1].k, b[1].v), Tail(b))

\* parse_speakers returns; line 890 merges the tables; generate_files_and_report
\* opens the report (lines 549-566), new in the first session
ParseSpeakersEnd ==
    /\ pc = "speakers"
    /\ pos.i > Len(speakers)
    /\ speakers' = DictMerge(speakers, speakers)
    /\ pc' = "generate"
    /\ pos' = NormPos(me.topics, 1, 1)
    /\ visited_links' = <<>>
    /\ rows' = IF session = 1 THEN <<>> ELSE rows
    /\ UNCHANGED <<world, me, net, scan, written, session, doc, st>>

(***************************************************************************)
(* generate_files_and_report (lines 543-609) and generate_file_name.       *)
(***************************************************************************)
\* a variant that numbers a file by its topic in place of its order
generate_file_name_by_topic(session_number, date_string, topic_id, order, name) ==
    <<"s", "_">> \o PadLeft(Digits(session_number), 3) \o <<"_">> \o date_string
        \o <<"_", "t", "_">> \o PadLeft(Digits(topic_id), 3)
        \o <<"_", "i", "_">> \o PadLeft(Digits(topic_id), 3) \o <<"_">> \o name
        \o <<".", "t", "x", "t">>

\* lines 653-658
generate_file_name(session_number, date_string, topic_id, order, name) ==
    <<"s", "_">> \o PadLeft(Digits(session_number), 3) \o <<"_">> \o date_string
        \o <<"_", "t", "_">> \o PadLeft(Digits(topic_id), 3)
        \o <<"_", "i", "_">> \o PadLeft(Digits(order), 3) \o <<"_">> \o name
        \o <<".", "t", "x", "t">>

\* a variant that skips every reference of a sub-page after its first
VisitSkippingPage(visited, int_info) ==
    IF int_info.stenopage \notin Keys(visited)
    THEN [skip |-> FALSE, visited |-> Put(visited, int_info.stenopage, <<>>)]
    ELSE [skip |-> TRUE, visited |-> visited]

\* lines 571-578
Visit(visited, int_info) ==
    IF int_info.stenopage \notin Keys(visited)
    THEN [skip |-> FALSE, visited |-> Put(visited, int_info.stenopage, <<>>)]
    ELSE IF \E j \in 1..Len(Get(visited, int_info.stenopage)) :
                Get(visited, int_info.stenopage)[j] = int_info.reftag
         THEN [skip |-> TRUE, visited |-> visited]
         ELSE [skip |-> FALSE,
               visited |-> Put(visited, int_info.stenopage,
                               Append(Get(visited, int_info.stenopage), int_info.reftag))]

\* lines 591-599
Row(session_number, int_info, topic_id, topic_str, order, name, steno_name, file_name) ==
    [session |-> session_number, date |-> int_info.date, topic_idx |-> topic_id,
     topic_str |-> topic_str, order |-> order, name |-> name,
     steno_name |-> steno_name, file_name |-> file_name]

\* lines 569-605: one reference of one topic
GenerateFiles ==
    /\ pc = "generate"
    /\ pos.t <= Len(me.topics)
    /\ LET topic_id == me.topics[pos.t].k
           int_info == me.topics[pos.t].v[pos.i]
           v == Visit(visited_links, int_info)
           found == /\ int_info.stenopage \in Keys(me.stenos)
                    /\ int_info.reftag \in Keys(Get(me.stenos, int_info.stenopage))
           steno == Get(Get(me.stenos, int_info.stenopage), int_info.reftag)
           file_name == generate_file_name(me.session_number, int_info.date, topic_id,
                                           pos.i, steno.stenoname)
       IN  /\ visited_links' = v.visited
           /\ IF v.skip \/ ~found
              THEN UNCHANGED <<written, rows>>
              ELSE /\ written' = Append(written, [file_name |-> file_name, text |-> steno.text,
                                                  stenopage |-> int_info.stenopage,
                                                  reftag |-> int_info.reftag])
                   /\ IF steno.speaker_key \in Keys(speakers)
                      THEN rows' = Append(rows,
                                     Row(me.session_number, int_info, topic_id,
                                         Get(me.topic_titles, topic_id), pos.i,
                                         Get(speakers, steno.speaker_key).name,
                                         steno.stenoname, file_name))
                      ELSE UNCHANGED rows
    /\ pos' = NormPos(me.topics, pos.t, pos.i + 1)
    /\ UNCHANGED <<world, me, speakers, net, pc, scan, session, doc, st>>

\* generate_files_and_report returns
GenerateFilesEnd ==
    /\ pc = "generate"
    /\ pos.t > Len(me.topics)
    /\ pc' = "done"
    /\ UNCHANGED <<world, me, speakers, net, scan, pos, visited_links, written, rows,
                   session, doc, st>>

(***************************************************************************)
(* One session from a fresh process.                                       *)
(***************************************************************************)
NetInit == [cache |-> {}, log |-> <<>>]

Init ==
    /\ \E y \in Years : \E s \in Styles(y) : \E t \in Titles :
         /\ world = [style |-> s, title |-> t]
         /\ me = NewSession(y, 1)
    /\ speakers = <<>>
    /\ net = NetInit
    /\ pc = "start"
    /\ scan = ScanInit
    /\ pos = PosInit
    /\ visited_links = <<>>
    /\ written = <<>>
    /\ rows = <<>>
    /\ session = 1
    /\ doc = <<>>
    /\ st = StenoInit(<<>>)

Next ==
    \/ ParseSessionStart
    \/ Locate
    \/ LocateEnd
    \/ GetAllStenos
    \/ GetAllStenosEnd
    \/ ParseSpeakers
    \/ ParseSpeakersEnd
    \/ GenerateFiles
    \/ GenerateFilesEnd

Spec == Init /\ [][Next]_vars


(***************************************************************************)
(* Several sessions of one process: main's loop (lines 874-901) over the   *)
(* speaker table.  Which transcripts a session parses is left open: any    *)
(* page of RunPages, any number of times up to MaxRunPages.                *)
(***************************************************************************)
\* sessions of one run
MaxSessions == 2

\* transcript pages parsed in one session of a run
MaxRunPages == 2

\* transcripts a session of a run may parse
RunPages ==
    { Transcript(FileS1),
      Transcript(FileS2),
      << Para(TRUE, <<"r", "1">>, HrefVlada, LabelA, <<"w">>),
         Para(TRUE, <<"r", "2">>, HrefDetailNoId, LabelC, <<"u">>) >>,
      << Para(TRUE, <<"r", "1">>, NoHref, LabelA2, <<"w">>),
         Para(TRUE, <<"r", "2">>, HrefOther, <<":">>, <<"u">>) >> }

InitRun ==
    /\ world = [style |-> "q", title |-> TitleOk(<<"3">>)]
    /\ me = NewSession(2017, 1)
    /\ speakers = <<>>
    /\ net = NetInit
    /\ pc = "stenos"
    /\ scan = ScanInit
    /\ pos = PosInit
    /\ visited_links = <<>>
    /\ written = <<>>
    /\ rows = <<>>
    /\ session = 1
    /\ doc = <<>>
    /\ st = StenoInit(<<>>)

\* get_all_stenos, line 328: one transcript is parsed
RunPage ==
    /\ pc = "stenos"
    /\ pos.i <= MaxRunPages
    /\ \E page \in RunPages :
         LET s == parse_steno(page, speakers)
         IN  /\ speakers' = s.speakers
             /\ doc' = page
             /\ pc' = IF s.crashed THEN "crashed" ELSE "stenos"
    /\ pos' = [pos EXCEPT !.i = @ + 1]
    /\ UNCHANGED <<world, me, net, scan, visited_links, written, rows, session, st>>

\* get_all_stenos returns
RunPagesEnd ==
    /\ pc = "stenos"
    /\ pc' = "speakers"
    /\ pos' = PosInit
    /\ UNCHANGED <<world, me, speakers, net, scan, visited_links, written, rows,
                   session, doc, st>>

\* line 884: the next session link
NextSession ==
    /\ pc = "done"
    /\ session < MaxSessions
    /\ session' = session + 1
    /\ me' = NewSession(me.year, session + 1)
    /\ pc' = "stenos"
    /\ pos' = PosInit
    /\ doc' = <<>>
    /\ UNCHANGED <<world, speakers, net, scan, visited_links, written, rows, st>>

NextRun ==
    \/ RunPage
    \/ RunPagesEnd
    \/ ParseSpeakers
    \/ ParseSpeakersEnd
    \/ GenerateFilesEnd
    \/ NextSession

SpecRun == InitRun /\ [][NextRun]_vars

(***************************************************************************)
(* The whole run: main (lines 843-901) from the request of the index page, *)
(* every session with its whole pipeline.  The links of a session are      *)
(* relative to its directory (line 101), so the cache a session sees holds *)
(* the biography pages alone of what earlier sessions stored.              *)
(***************************************************************************)
\* anchors of a session page of a whole run
MaxMainAnchors == 2

\* lines 847-850
IndexLink == Href("stenprot/", <<"i", "n", "d", "e", "x">>, "htm", <<>>)

InitMain ==
    /\ \E y \in Years : \E s \in Styles(y) : \E t \in Titles :
         /\ world = [style |-> s, title |-> t]
         /\ me = NewSession(y, 1)
    /\ speakers = <<>>
    /\ net = NetInit
    /\ pc = "index"
    /\ scan = ScanInit
    /\ pos = PosInit
    /\ visited_links = <<>>
    /\ written = <<>>
    /\ rows = <<>>
    /\ session = 1
    /\ doc = <<>>
    /\ st = StenoInit(<<>>)

\* lines 853-857: the index page is requested, past the cache
FetchIndex ==
    /\ pc = "index"
    /\ \E net_ok \in BOOLEAN :
         /\ net' = [net EXCEPT !.log = Append(@, [link |-> IndexLink, net |-> TRUE,
                                                   ok |-> net_ok])]
         /\ pc' = IF net_ok THEN "start" ELSE "exited"
    /\ UNCHANGED <<world, me, speakers, scan, pos, visited_links, written, rows,
                   session, doc, st>>

LocateMain == LocateUpTo(MaxMainAnchors)

\* lines 874-885: the next session link
NextSessionMain ==
    /\ pc = "done"
    /\ session < MaxSessions
    /\ session' = session + 1
    /\ me' = NewSession(me.year, session + 1)
    /\ net' = [net EXCEPT !.cache = {l \in @ : l.dir \in {HrefDetail, HrefVlada}}]
    /\ pc' = "start"
    /\ scan' = ScanInit
    /\ pos' = PosInit
    /\ UNCHANGED <<world, speakers, visited_links, written, rows, doc, st>>

NextMain ==
    \/ FetchIndex
    \/ ParseSessionStart
    \/ LocateMain
    \/ LocateEnd
    \/ GetAllStenos
    \/ GetAllStenosEnd
    \/ ParseSpeakers
    \/ ParseSpeakersEnd
    \/ GenerateFiles
    \/ GenerateFilesEnd
    \/ NextSessionMain

SpecMain == InitMain /\ [][NextMain]_vars

(***************************************************************************)
(* The segmenter alone, paragraph by paragraph.                            *)
(***************************************************************************)
\* paragraphs a transcript may hold
ParaSet ==
    { Para(TRUE, <<"r", "1">>, HrefDetail, <<"A", ":">>, <<" ", "x">>),
      Para(TRUE, <<"r", "2">>, NoHref, <<"B", ",", "C">>, <<"y", NBSP>>),
      Para(TRUE, <<"r", "1">>, HrefVlada, <<"A">>, <<"w">>),
      Para(TRUE, <<"h", "1">>, HrefVoting, <<"v">>, <<"n">>),
      Para(TRUE, NoId, HrefVoting, <<"v">>, <<"n">>),
      Para(TRUE, NoId, HrefOther, <<"k">>, <<"m">>),
      Para(TRUE, <<"r", "3">>, HrefOther, <<>>, <<"u">>),
      Para(TRUE, <<"r", "3">>, HrefOther, <<":">>, <<"u">>),
      Para(FALSE, NoId, NoHref, <<>>, <<":", " ", "t">>),
      Para(FALSE, NoId, NoHref, <<>>, <<NBSP>>) }

InitSteno ==
    /\ world = [style |-> "q", title |-> TitleOk(<<"3">>)]
    /\ me = NewSession(2017, 1)
    /\ speakers = <<>>
    /\ net = NetInit
    /\ pc = "segment"
    /\ scan = ScanInit
    /\ pos = PosInit
    /\ visited_links = <<>>
    /\ written = <<>>
    /\ rows = <<>>
    /\ session = 1
    /\ doc = <<>>
    /\ st = StenoInit(<<>>)

\* lines 364-411: the loop reads one more paragraph
ReadPara ==
    /\ pc = "segment"
    /\ Len(doc) < MaxParas
    /\ \E p \in ParaSet :
         /\ st' = StenoStep(st, p)
         /\ doc' = Append(doc, p)
         /\ pc' = IF StenoStep(st, p).crashed THEN "crashed" ELSE "segment"
    /\ UNCHANGED <<world, me, speakers, net, scan, pos, visited_links, written, rows, session>>

\* lines 412-414: the page ends, the open turn is flushed
EndPage ==
    /\ pc = "segment"
    /\ st' = [st EXCEPT !.interventions = StenoResult(st)]
    /\ speakers' = st.speakers
    /\ pc' = "segmented"
    /\ UNCHANGED <<world, me, net, scan, pos, visited_links, written, rows, session, doc>>

NextSteno ==
    \/ ReadPara
    \/ EndPage

SpecSteno == InitSteno /\ [][NextSteno]_vars


(***************************************************************************)
(* The segmenter on one speaker label: a page of one paragraph, whose      *)
(* anchor has an id and any text of LabelChars up to MaxLabelLen.          *)
(***************************************************************************)
\* characters of a speaker label
MaxLabelLen == 4

LabelChars == {"A", " ", NBSP, ",", ":", "_"}

Labels == UNION {[1..n -> LabelChars] : n \in 1..MaxLabelLen}

InitLabel ==
    /\ world = [style |-> "q", title |-> TitleOk(<<"3">>)]
    /\ me = NewSession(2017, 1)
    /\ speakers = <<>>
    /\ net = NetInit
    /\ pc = "label"
    /\ scan = ScanInit
    /\ pos = PosInit
    /\ visited_links = <<>>
    /\ written = <<>>
    /\ rows = <<>>
    /\ session = 1
    /\ \E l \in Labels : doc = <<Para(TRUE, <<"r", "1">>, NoHref, l, <<"x">>)>>
    /\ st = StenoInit(<<>>)

\* lines 364-411 on the paragraph
ReadLabel ==
    /\ pc = "label"
    /\ st' = StenoStep(st, doc[1])
    /\ pc' = IF StenoStep(st, doc[1]).crashed THEN "crashed" ELSE "labelled"
    /\ UNCHANGED <<world, me, speakers, net, scan, pos, visited_links, written, rows,
                   session, doc>>

NextLabel == ReadLabel

SpecLabel == InitLabel /\ [][NextLabel]_vars

(***************************************************************************)
(* The resolver on one page name: a speaker whose biography page has a     *)
(* heading of up to MaxNameWords words, each a name word or a title of     *)
(* title_strings.  world.h1 is the heading.                                *)
(***************************************************************************)
\* words of a page name
MaxNameWords == 2

NameWords == { <<"J", "a", "n">>, <<"N", "o", "v", "a", "k">> }

TitleWords == { title_strings[i] : i \in 1..Len(title_strings) }

\* the words joined by single spaces
RECURSIVE JoinWords(_)
JoinWords(ws) ==
    IF ws = <<>> THEN <<>>
    ELSE IF Len(ws) = 1 THEN ws[1]
    ELSE ws[1] \o <<" ">> \o JoinWords(Tail(ws))

PageNames ==
    { JoinWords(ws) : ws \in UNION {[1..n -> NameWords \cup TitleWords] : n \in 1..MaxNameWords} }

InitName ==
    /\ \E h \in PageNames : world = [style |-> "q", title |-> TitleOk(<<"3">>), h1 |-> h]
    /\ me = NewSession(2017, 1)
    /\ speakers = << [k |-> SpeakerKey(LabelA),
                      v |-> Speaker(SpeakerLabel(LabelA), <<>>, <<>>, <<>>, <<>>, <<>>,
                                    <<>>, <<>>, HrefVlada)] >>
    /\ net = NetInit
    /\ pc = "name"
    /\ scan = ScanInit
    /\ pos = PosInit
    /\ visited_links = <<>>
    /\ written = <<>>
    /\ rows = <<>>
    /\ session = 1
    /\ doc = <<>>
    /\ st = StenoInit(<<>>)

\* lines 438-439 and 477-486 on the page
ResolveName ==
    /\ pc = "name"
    /\ speakers' = [speakers EXCEPT ![1].v = EnrichFrom(@, [h1 |-> world.h1, fig |-> NoFig])]
    /\ pc' = "named"
    /\ UNCHANGED <<world, me, net, scan, pos, visited_links, written, rows, session, doc, st>>

NextName == ResolveName

SpecName == InitName /\ [][NextName]_vars

(***************************************************************************)
(* Properties.                                                             *)
(***************************************************************************)
NoDup(s) == \A i, j \in 1..Len(s) : i < j => s[i] # s[j]

IsPrefix(a, b) == Len(a) <= Len(b) /\ SubSeq(b, 1, Len(a)) = a

\* the last anchor the locator read
LastSeen(sc) == sc.seen[Len(sc.seen)]

\* the title of a page lets no date be determined
UndatedTitle(title) ==
    title.empty \/ ~title.pattern \/ title.month \notin DOMAIN CzechMonths

\* C1: no (sub-page, referenceTag) pair is written to a file more than once
\* in one session, the first reference tag seen on a sub-page included.
C1_NoPairWrittenTwice ==
    \A i, j \in 1..Len(written) :
        i < j => <<written[i].stenopage, written[i].reftag>>
                   # <<written[j].stenopage, written[j].reftag>>

\* the order field of a file name s_ddd_yyyymmdd_t_ddd_i_ddd_name.txt
OrderField(file_name) == SubSeq(file_name, 24, 26)

\* the session has one topic, whose list holds two distinct references to the
\* same sub-page, both in the segmented transcript
C2_Case ==
    /\ Len(me.topics) = 1
    /\ LET l == me.topics[1].v
       IN  /\ Len(l) = 2
           /\ l[1] # l[2]
           /\ l[1].stenopage = l[2].stenopage
           /\ l[1].stenopage \in Keys(me.stenos)
           /\ l[1].reftag \in Keys(Get(me.stenos, l[1].stenopage))
           /\ l[2].reftag \in Keys(Get(me.stenos, l[1].stenopage))

\* C2: for such a session generate_files_and_report writes exactly two files,
\* with order fields 001 and 002, and exactly two rows of the file summary.
C2_TwoFilesTwoRows ==
    (pc = "done" /\ C2_Case) =>
        /\ Len(written) = 2
        /\ OrderField(written[1].file_name) = <<"0", "0", "1">>
        /\ OrderField(written[2].file_name) = <<"0", "0", "2">>
        /\ Len(rows) = 2
        /\ rows[1].order = 1 /\ rows[2].order = 2

C2_Witness == pc = "done" /\ C2_Case /\ Len(written) = 2

\* C3: no topic's reference list holds two equal InterventionReference records.
C3_NoDupInTopic == \A t \in 1..Len(me.topics) : NoDup(me.topics[t].v)

IndexNoDup ==
    \A q \in 1..Len(me.interventions_info) : NoDup(me.interventions_info[q].v)

\* the locator reads a link to a sub-page the session has resolved
C4_ReResolve ==
    /\ pc = "locate"
    /\ Len(scan'.seen) = Len(scan.seen) + 1
    /\ LastSeen(scan').href # NoLink
    /\ PageIdx(me.year, LastSeen(scan').href) \in Keys(me.pages)

\* C4: no list of the intervention-reference index ever holds a duplicate, and
\* a link to a sub-page that is already resolved leaves the index as it was.
C4_ResolveIdempotent ==
    [][/\ IndexNoDup'
       /\ C4_ReResolve => me'.interventions_info = me.interventions_info]_vars

C4_Witness ==
    /\ pc = "locate"
    /\ Len(me.interventions_info) >= 2
    /\ \E t \in 1..Len(me.topics) : ~NoDup(me.topics[t].v)

\* C5: the resolver fetches a sub-page at most once in a session: no request
\* for a sub-page name goes to the network after one that returned the page.
C5_FetchedAtMostOnce ==
    \A i, j \in 1..Len(net.log) :
        (/\ i < j
         /\ net.log[i].link.ext = "html"
         /\ net.log[i].net /\ net.log[i].ok
         /\ net.log[j].net)
        => <<net.log[i].link.dir, net.log[i].link.file>>
             # <<net.log[j].link.dir, net.log[j].link.file>>

\* the topic id an anchor of the session page opens in a year, -1 for none
AnchorTopic(year, a) ==
    IF year > 2013
    THEN IF a.first /\ a.id # NoId THEN TopicNumber(a.id, FALSE) ELSE -1
    ELSE IF a.name # NoId THEN TopicNumber(a.name, TRUE) ELSE -1

\* the title an anchor of the session page gives its topic
AnchorTitle(year, a) == IF year > 2013 THEN a.title ELSE filter_text(a.title)

\* every stored title is the one of the first anchor that opened its topic id
C6_TitleOfFirst ==
    \A k \in 1..Len(me.topic_titles) :
        \E i \in 1..Len(scan.seen) :
            /\ AnchorTopic(me.year, scan.seen[i]) = me.topic_titles[k].k
            /\ \A j \in 1..(i - 1) : AnchorTopic(me.year, scan.seen[j]) # me.topic_titles[k].k
            /\ me.topic_titles[k].v = AnchorTitle(me.year, scan.seen[i])

\* the locator reads an anchor that opens a topic id already known
C6_Reopen ==
    /\ pc = "locate"
    /\ Len(scan'.seen) = Len(scan.seen) + 1
    /\ AnchorTopic(me.year, LastSeen(scan')) \in Keys(me.topics)

\* C6: a topic's title is the one of the first anchor that opened its id; a
\* later anchor with that id changes neither the title nor the reference
\* list, and makes the topic the current one.
C6_FirstTitleWins ==
    [][pc = "locate" =>
         /\ C6_TitleOfFirst'
         /\ \A k \in 1..Len(me.topics) :
              /\ me.topics[k].k \in Keys(me'.topics)
              /\ Get(me'.topic_titles, me.topics[k].k) = Get(me.topic_titles, me.topics[k].k)
              /\ IsPrefix(me.topics[k].v, Get(me'.topics, me.topics[k].k))
         /\ C6_Reopen =>
              /\ scan'.topic_id = AnchorTopic(me.year, LastSeen(scan'))
              /\ me'.topics = me.topics
              /\ me'.topic_titles = me.topic_titles]_vars

C6_Witness ==
    /\ pc = "locate"
    /\ Len(scan.seen) >= 3
    /\ \E i \in 1..(Len(scan.seen) - 1) :
         /\ AnchorTopic(me.year, scan.seen[i]) = AnchorTopic(me.year, LastSeen(scan))
         /\ scan.seen[i].title # LastSeen(scan).title
    /\ AnchorTopic(me.year, LastSeen(scan)) \in Keys(me.topics)
    /\ Get(me.topics, AnchorTopic(me.year, LastSeen(scan))) # <<>>

\* the locator's step fetched a sub-page whose title gives no date
C7_DateFailed ==
    /\ pc = "locate"
    /\ Len(net'.log) = Len(net.log) + 1
    /\ LET e == net'.log[Len(net'.log)]
       IN  e.ok /\ e.link.ext = "html" /\ UndatedTitle(SubPage(e.link.file).title)

\* C7: when the date of a fetched sub-page cannot be determined, no topic
\* gains a reference, the page is not recorded, the index gains no entry, and
\* the scan goes on.
C7_NoPartialResult ==
    [][C7_DateFailed =>
         /\ me'.topics = me.topics
         /\ me'.pages = me.pages
         /\ me'.interventions_info = me.interventions_info
         /\ pc' = "locate"
         /\ Len(scan'.seen) = Len(scan.seen) + 1]_vars

C7_Witness ==
    /\ pc = "locate"
    /\ UndatedTitle(SubPage(File11).title)
    /\ \E i, j \in 1..Len(net.log) :
         /\ i < j
         /\ net.log[i].ok /\ net.log[i].link.ext = "html" /\ net.log[i].link.file = File11
         /\ net.log[j].ok /\ net.log[j].link.file = File12
    /\ Len(me.pages) = 1
    /\ \E t \in 1..Len(me.topics) : me.topics[t].v # <<>>

\* the paragraph is skipped as empty (lines 366-367)
IsEmptyPara(p) == PText(p) = <<NBSP>> \/ PText(p) = <<>>

\* the paragraph opens a speaker turn: its first anchor is a speaker label
IsOpener(p) ==
    /\ ~IsEmptyPara(p)
    /\ p.a /\ p.id # NoId /\ p.atext # <<>>
    /\ ~(p.href # NoHref /\ IsVotingHref(p.href))

\* the paragraph's text without the speaker label
TurnText(p) == IF IsOpener(p) THEN p.body ELSE PText(p)

\* the filtered text of the non-empty paragraphs i .. j-1 of a page
RECURSIVE TurnConcat(_, _, _)
TurnConcat(d, i, j) ==
    IF i >= j THEN <<>>
    ELSE (IF IsEmptyPara(d[i]) THEN <<>> ELSE filter_text(Strip(TurnText(d[i]))) \o <<"\n">>)
         \o TurnConcat(d, i + 1, j)

\* the paragraph that opened the turn returned for a reference tag
TurnStart(d, r) ==
    CHOOSE i \in 1..Len(d) :
        /\ IsOpener(d[i]) /\ d[i].id = r
        /\ \A j \in (i + 1)..Len(d) : ~(IsOpener(d[j]) /\ d[j].id = r)

\* the paragraph that opens the next turn, Len(d) + 1 if none does
TurnEnd(d, i) ==
    IF \E j \in (i + 1)..Len(d) : IsOpener(d[j])
    THEN CHOOSE j \in (i + 1)..Len(d) :
             IsOpener(d[j]) /\ \A k \in (i + 1)..(j - 1) : ~IsOpener(d[k])
    ELSE Len(d) + 1

\* C8 as stated: the text of each Intervention is the filtered text of every
\* non-empty paragraph of its turn, in document order, without the speaker
\* label.
C8_TextIsWholeTurn ==
    pc = "segmented" =>
        \A k \in 1..Len(st.interventions) :
            st.interventions[k].v.text
              = Strip(TurnConcat(doc, TurnStart(doc, st.interventions[k].k),
                                 TurnEnd(doc, TurnStart(doc, st.interventions[k].k))))

\* the paragraph is left out whole: its first anchor has an id and either
\* points at a voting record or has no text
IsLeftOut(p) ==
    /\ ~IsEmptyPara(p)
    /\ p.a /\ p.id # NoId
    /\ p.atext = <<>> \/ (p.href # NoHref /\ IsVotingHref(p.href))

\* the filtered text of the paragraphs i .. j-1 of a page that are neither
\* empty nor left out
RECURSIVE KeptConcat(_, _, _)
KeptConcat(d, i, j) ==
    IF i >= j THEN <<>>
    ELSE (IF IsEmptyPara(d[i]) \/ IsLeftOut(d[i])
          THEN <<>>
          ELSE filter_text(Strip(TurnText(d[i]))) \o <<"\n">>)
         \o KeptConcat(d, i + 1, j)

\* C8, amended: the text of each Intervention is the filtered text, in
\* document order, of the paragraphs of its turn that are neither empty nor
\* left out, each ended by a newline, the whole trimmed, without the speaker
\* label.
C8_TextIsKeptTurn ==
    pc = "segmented" =>
        \A k \in 1..Len(st.interventions) :
            st.interventions[k].v.text
              = Strip(KeptConcat(doc, TurnStart(doc, st.interventions[k].k),
                                 TurnEnd(doc, TurnStart(doc, st.interventions[k].k))))

\* a turn of three paragraphs, the middle one left out
C8_Witness ==
    /\ pc = "segmented"
    /\ Len(doc) = 3
    /\ IsOpener(doc[1]) /\ IsLeftOut(doc[2]) /\ ~IsOpener(doc[3])
    /\ ~IsEmptyPara(doc[3]) /\ ~IsLeftOut(doc[3])
    /\ Len(st.interventions) = 1
    /\ Contains(st.interventions[1].v.text, <<"\n">>)

\* the segmenter reads a paragraph whose first anchor is a voting-record link
C9_VotingRead ==
    /\ pc = "segment"
    /\ Len(doc') = Len(doc) + 1
    /\ doc'[Len(doc')].a
    /\ doc'[Len(doc')].href # NoHref
    /\ IsVotingHref(doc'[Len(doc')].href)

\* C9: a paragraph whose first anchor points at a voting record changes
\* neither the current reference tag, nor the current speaker key, nor the
\* interventions, nor the speaker table.
C9_VotingFrame ==
    [][C9_VotingRead =>
         /\ st'.r_id = st.r_id
         /\ st'.speaker_key = st.speaker_key
         /\ st'.speaker = st.speaker
         /\ st'.interventions = st.interventions
         /\ st'.speakers = st.speakers
         /\ pc' = "segment"]_vars

C9_Witness ==
    /\ pc = "segment"
    /\ Len(doc) >= 2
    /\ doc[Len(doc)].id # NoId
    /\ doc[Len(doc)].href = HrefVoting
    /\ IsOpener(doc[Len(doc) - 1])
    /\ st.r_id # <<>>

\* C10: the speaker table only grows: a key stays, with its display name and
\* link, and a record with a normalized name is never changed.
C10_SpeakersOnlyGrow ==
    [][\A i \in 1..Len(speakers) :
         /\ speakers[i].k \in Keys(speakers')
         /\ Get(speakers', speakers[i].k).stenoname = speakers[i].v.stenoname
         /\ Get(speakers', speakers[i].k).link = speakers[i].v.link
         /\ Len(speakers[i].v.name) > 0 => Get(speakers', speakers[i].k) = speakers[i].v]_vars

\* in a later session a transcript names a speaker that is known and has a
\* normalized name, under another link
C10_Witness ==
    /\ session = 2
    /\ pc = "stenos"
    /\ \E n \in 1..Len(doc) :
         /\ IsOpener(doc[n])
         /\ filter_text(doc[n].atext) # <<>>
         /\ SpeakerKey(filter_text(doc[n].atext)) \in Keys(speakers)
         /\ Len(Get(speakers, SpeakerKey(filter_text(doc[n].atext))).name) > 0
         /\ Get(speakers, SpeakerKey(filter_text(doc[n].atext))).link # SpeakerPage(doc[n])

\* parse_speakers moves on from the record at pos.i
C11_Passed == pc = "speakers" /\ pc' = "speakers" /\ pos'.i = pos.i + 1

\* C11: the record parse_speakers leaves for a speaker is one that a further
\* pass over it would leave as it is, and a record that has a normalized name
\* is passed without a change and without a request.
C11_EnrichIdempotent ==
    [][C11_Passed =>
         /\ EnrichOne(speakers'[pos.i].v) = speakers'[pos.i].v
         /\ EnrichOne(speakers[pos.i].v) = speakers[pos.i].v => speakers' = speakers
         /\ Len(speakers[pos.i].v.name) > 0 =>
              /\ speakers' = speakers
              /\ net' = net
              /\ me' = me]_vars

\* the second session parsed no transcript and parse_speakers has passed again
\* over the table of the first, which holds a record with a normalized name
\* and one without
C11_Witness ==
    /\ session = 2
    /\ pc = "speakers"
    /\ doc = <<>>
    /\ pos.i = Len(speakers) + 1
    /\ \E j, k \in 1..Len(speakers) :
         /\ Len(speakers[j].v.name) > 0
         /\ Len(speakers[k].v.name) = 0
         /\ Len(speakers[k].v.function) > 0

\* the step makes a request that fails
FailedFetch ==
    /\ Len(net'.log) = Len(net.log) + 1
    /\ ~net'.log[Len(net'.log)].ok

\* the link the step requests
FetchedLink == net'.log[Len(net'.log)].link

IsBioLink(l) == l.dir \in {HrefDetail, HrefVlada}

\* a failed request for a biography page ends the run, and one for a page of
\* a session does not; after the end of the run nothing more is done
C12_Escalation ==
    /\ pc # "exited"
    /\ (FailedFetch /\ IsBioLink(FetchedLink)) =>
         /\ pc = "speakers"
         /\ pc' = "exited"
         /\ UNCHANGED <<speakers, written, rows, session>>
    /\ (FailedFetch /\ ~IsBioLink(FetchedLink) /\ FetchedLink # IndexLink) =>
         pc' \notin {"exited", "crashed"}

\* C12 as stated: a failed request for a biography page ends the whole run,
\* and no other failed request does.
C12_OnlyFatalFetch ==
    [][/\ C12_Escalation
       /\ pc' = "exited" => (FailedFetch /\ IsBioLink(FetchedLink))]_vars

\* C12, amended: a failed request for a biography page ends the whole run;
\* of the requests of a session no other does, and the one other request
\* whose failure ends the run is that of the index page, before any session.
C12_FatalFetches ==
    [][/\ C12_Escalation
       /\ pc' = "exited" =>
            /\ FailedFetch
            /\ IsBioLink(FetchedLink) \/ (FetchedLink = IndexLink /\ pc = "index")
       /\ (FailedFetch /\ FetchedLink = IndexLink) => pc' = "exited"]_vars

\* the run ended in its first session on a biography page, with a speaker
\* left to enrich, after a request for a page of the session had failed
C12_Witness ==
    /\ pc = "exited"
    /\ session = 1
    /\ pos.i < Len(speakers)
    /\ IsBioLink(net.log[Len(net.log)].link)
    /\ \E k \in 1..Len(net.log) - 1 :
         /\ ~net.log[k].ok
         /\ net.log[k].link # IndexLink

\* C13: no anchor aborts the scan of the session page: the locator skips an
\* anchor that lacks an attribute or whose identifier is not a topic boundary,
\* and goes on with the anchors after it.
C13_ScanNeverAborts == [][pc = "locate" => pc' = "locate" \/ pc' = "stenos"]_vars

\* C14: the speaker key derived from a label has no space, no comma and no
\* two consecutive underscores.
C14_KeyIsClean ==
    pc = "labelled" =>
        /\ ~Contains(st.speaker_key, <<" ">>)
        /\ ~Contains(st.speaker_key, <<",">>)
        /\ ~Contains(st.speaker_key, <<"_", "_">>)

\* the words of a text: its parts between spaces
RECURSIVE WordsFrom(_, _)
WordsFrom(s, w) ==
    IF s = <<>> THEN (IF w = <<>> THEN {} ELSE {w})
    ELSE IF s[1] = " " THEN (IF w = <<>> THEN {} ELSE {w}) \cup WordsFrom(Tail(s), <<>>)
    ELSE WordsFrom(Tail(s), Append(w, s[1]))

Words(s) == WordsFrom(s, <<>>)

\* C15: every title of the page name is extracted whole, and the words of the
\* residual name together with the extracted titles are the words of the page
\* name.
C15_TitlesRoundTrip ==
    pc = "named" =>
        LET r == speakers[1].v
        IN  /\ Words(r.titles) = Words(world.h1) \cap TitleWords
            /\ Words(r.name) \cup Words(r.titles) = Words(world.h1)

\* the topic-scoped id the locator of a year derives from an href
DerivedId(year, href) ==
    IF year > 2013 THEN get_qid_for_topic(href) ELSE get_hash_for_topic(year, href)

\* the href matches the intervention-boundary pattern of the year
IsBoundaryHref(year, href) ==
    /\ href # NoLink
    /\ href # HrefHistorie
    /\ IF year >= 2013 THEN get_qid_for_topic(href) # None
       ELSE get_hash_for_topic(year, href) # None

\* the locator reads, under a current topic, an anchor whose href matches the
\* pattern of the era; the resolver succeeds, and the sub-page has indexed a
\* group of intervention links under the name the fragment of the href gives
C16_Case ==
    /\ pc = "locate" /\ pc' = "locate"
    /\ Len(scan'.seen) = Len(scan.seen) + 1
    /\ LET a == LastSeen(scan')
       IN  /\ IsBoundaryHref(me.year, a.href)
           /\ IF me.year > 2013 THEN ~a.first /\ scan.par_ok ELSE a.name = NoId
           /\ scan.topic_id \in Keys(me.topics)
           /\ PageIdx(me.year, a.href) \in Keys(me'.pages)
           /\ a.href.frag \in Keys(me'.interventions_info)
           /\ Get(me'.interventions_info, a.href.frag) # <<>>

\* C16: in each era the topic-scoped id derived from the href is the key of
\* the group the href names in the sub-page, and the references of that group
\* are appended to the current topic's list.
C16_IdMatchesGroup ==
    [][C16_Case =>
         LET a == LastSeen(scan')
         IN  /\ DerivedId(me.year, a.href) = a.href.frag
             /\ Get(me'.topics, scan.topic_id)
                  = Get(me.topics, scan.topic_id) \o Get(me'.interventions_info, a.href.frag)]_vars

\* the page a requested link names, without its fragment
PageOf(l) == <<l.dir, l.file, l.ext>>

\* the link names a sub-page or a transcript page of the session
IsSessionPage(l) == l # SessionLink /\ l # IndexLink /\ ~IsBioLink(l)

\* C17: once a request for a sub-page or a transcript page has failed, the
\* session makes no other request for that page.
C17_NoRetry ==
    \A i, j \in 1..Len(net.log) :
        (i < j /\ ~net.log[i].ok /\ IsSessionPage(net.log[i].link))
        => PageOf(net.log[j].link) # PageOf(net.log[i].link)

\* C18: every file written has its row; the order in its name and in its row
\* is a position of its reference in the list of its topic, the references
\* that were skipped counted; the orders written for a topic increase, and no
\* two files of the session share a name.
C18_OrderIsPosition ==
    /\ Len(rows) = Len(written)
    /\ \A k \in 1..Len(written) :
         /\ rows[k].file_name = written[k].file_name
         /\ rows[k].topic_idx \in Keys(me.topics)
         /\ rows[k].order \in 1..Len(Get(me.topics, rows[k].topic_idx))
         /\ Get(me.topics, rows[k].topic_idx)[rows[k].order].stenopage = written[k].stenopage
         /\ Get(me.topics, rows[k].topic_idx)[rows[k].order].reftag = written[k].reftag
         /\ OrderField(written[k].file_name) = PadLeft(Digits(rows[k].order), 3)
    /\ \A j, k \in 1..Len(rows) :
         j < k =>
           /\ rows[j].topic_idx = rows[k].topic_idx => rows[j].order < rows[k].order
           /\ written[j].file_name # written[k].file_name

\* a topic's files have the orders 1 and 3 and none has the order 2
C18_Witness ==
    /\ pc = "done"
    /\ \E j, k \in 1..Len(rows) :
         /\ rows[j].topic_idx = rows[k].topic_idx
         /\ rows[j].order = 1
         /\ rows[k].order = 3
         /\ \A n \in 1..Len(rows) :
              rows[n].topic_idx = rows[j].topic_idx => rows[n].order # 2

=============================================================================
